---- MODULE Spec2Model ----
(***************************************************************************)
(* Model of the spatial query engine of the geolocation server             *)
(* (src/geolocation_server/.ipynb_checkpoints/server-checkpoint.py) and of *)
(* the historical timeline server (src/historical_map_server/server.py).   *)
(*                                                                         *)
(* Numbers.  Python floats are modelled in fixed point:                    *)
(*   - a latitude or longitude is an integer number of 1e-4 degrees (the   *)
(*     tables give at most four decimals),                                 *)
(*   - an angle in radians, a sine, a cosine are integers in units of 1e-6,*)
(*   - the haversine term `a` is an integer in units of 1e-12,             *)
(*   - a distance or a radius in km is an integer number of 1e-6 km (mm),  *)
(*   - a year is an integer.                                               *)
(* Strings are TLA+ strings; a character is a string of length 1.          *)
(***************************************************************************)
EXTENDS Integers, Sequences, FiniteSets, TLC

VARIABLES PLACES, POIS, EVENTS, pc, call, result, sessions

vars == <<PLACES, POIS, EVENTS, pc, call, result, sessions>>

(***************************************************************************)
(* Fixed-point arithmetic standing for the float operations of the code.   *)
(***************************************************************************)
Micro == 1000 * 1000

\* the element of a one-element set: The({F(v) : v \in {e}}) is F(e) with e
\* evaluated once, the way Python evaluates an argument or an assignment
The(S) == CHOOSE x \in S : TRUE

Abs(x) == IF x < 0 THEN -x ELSE x

Sign(x) == IF x < 0 THEN -1 ELSE 1

\* x / n rounded toward zero: like a float division it commutes with negation
TDiv(x, n) == The({Sign(v) * (Abs(v) \div n) : v \in {x}})

\* a * b / 10^6 for a, b >= 0, by parts so that no partial product leaves 32 bits
FMulNat(a, b) ==
    LET a1 == a \div 1000
        a0 == a % 1000
        b1 == b \div 1000
        b0 == b % 1000
        mid == a1 * b0 + a0 * b1
    IN  a1 * b1 + (mid \div 1000) + (((mid % 1000) * 1000 + a0 * b0) \div Micro)

\* the product of two fixed-point numbers (units of 1e-6), rounded toward zero
FMul(a, b) ==
    The({Sign(p[1]) * Sign(p[2]) * FMulNat(Abs(p[1]), Abs(p[2])) : p \in {<<a, b>>}})

\* math.radians: 1e-4 degrees to 1e-6 radians (pi/180 = 0.01745329...)
Radians(x) == FMul(x, 1745329)

\* math.sin and math.cos of an angle in 1e-6 radians, by their Taylor
\* polynomials (exact to the last unit for |x| <= 1 radian)
SinSeries(x, x2, x3) ==
    x - TDiv(x3, 6) + TDiv(FMul(x3, x2), 120) - TDiv(FMul(FMul(x3, x2), x2), 5040)

Sin(x) ==
    The({SinSeries(p[1], p[2], FMul(p[2], p[1])) :
            p \in {<<v, FMul(v, v)>> : v \in {x}}})

CosSeries(x2, x4) ==
    Micro - TDiv(x2, 2) + TDiv(x4, 24) - TDiv(FMul(x4, x2), 720)
    + TDiv(FMul(x4, x4), 40320)

Cos(x) ==
    The({CosSeries(p[1], p[2]) :
            p \in {<<x2, FMul(x2, x2)>> : x2 \in {FMul(x, x)}}})

\* math.asin of a value in units of 1e-6, result in 1e-6 radians
AsinSeries(x, x2, x3) == x + TDiv(x3, 6) + TDiv(3 * FMul(x3, x2), 40)

Asin(x) ==
    The({AsinSeries(p[1], p[2], FMul(p[2], p[1])) :
            p \in {<<v, FMul(v, v)>> : v \in {x}}})

RECURSIVE SqrtSearch(_, _, _)
SqrtSearch(n, lo, hi) ==
    IF lo >= hi THEN lo
    ELSE The({IF mid * mid <= n THEN SqrtSearch(n, mid, hi)
              ELSE SqrtSearch(n, lo, mid - 1) : mid \in {(lo + hi + 1) \div 2}})

\* math.sqrt of a value in units of 1e-12, result in units of 1e-6
Sqrt(n) == The({SqrtSearch(v, 0, 46340) : v \in {n}})

\* round(d, 3): a distance in 1e-6 km rounded to a multiple of 1e-3 km,
\* an exact half going to the even neighbour as Python's round does
RoundHalfEven(q, r) ==
    IF r < 500 THEN 1000 * q
    ELSE IF r > 500 THEN 1000 * (q + 1)
    ELSE IF q % 2 = 0 THEN 1000 * q ELSE 1000 * (q + 1)

\* a bug: rounded up to the next third decimal, not to the nearest
Round3_Up(d) == 1000 * ((d + 999) \div 1000)

Round3(d) == The({RoundHalfEven(v \div 1000, v % 1000) : v \in {d}})

(***************************************************************************)
(* The haversine distance of both servers.                                 *)
(***************************************************************************)
EarthRadiusKm == 6371

\* a bug: cos(phi1) ** 2 for cos(phi1) * cos(phi2)
HaversineTerm_OneLatitude(sLat, sLon, cos1, cos2) ==
    sLat * sLat + FMul(FMul(cos1, cos1), sLon * sLon)

HaversineTerm(sLat, sLon, cos1, cos2) ==
    sLat * sLat + FMul(FMul(cos1, cos2), sLon * sLon)

Haversine(r, lat1, lon1, lat2, lon2) ==
    LET dlat == Radians(lat2 - lat1)
        dlon == Radians(lon2 - lon1)
        a == The({HaversineTerm(s[1], s[2], Cos(Radians(lat1)), Cos(Radians(lat2))) :
                    s \in {<<Sin(TDiv(dlat, 2)), Sin(TDiv(dlon, 2))>>}})
    IN  2 * r * Asin(Sqrt(a))

\* a bug: the second point is passed as (lon, lat)
_haversine_km_LonLat(lat1, lon1, lat2, lon2) ==
    Haversine(EarthRadiusKm, lat1, lon1, lon2, lat2)

\* GeolocationServer._haversine_km
_haversine_km(lat1, lon1, lat2, lon2) ==
    Haversine(EarthRadiusKm, lat1, lon1, lat2, lon2)

\* HistoricalTimelineServer._distance_km
_distance_km(lat1, lon1, lat2, lon2) ==
    Haversine(EarthRadiusKm, lat1, lon1, lat2, lon2)

(***************************************************************************)
(* The literal datasets (class attributes PLACES, POIS and EVENTS).  PLACES *)
(* is a dict: its items in insertion order, as name and info.  Characters  *)
(* outside ASCII are written as their ASCII look-alikes.                   *)
(***************************************************************************)
PlacesTable ==
    <<
    [name |-> "AUB",
     info |-> [lat |-> 339010, lon |-> 354800, city |-> "Beirut", type |-> "university"]],
    [name |-> "Beirut",
     info |-> [lat |-> 338938, lon |-> 355018, city |-> "Beirut", type |-> "city"]],
    [name |-> "Baalbek",
     info |-> [lat |-> 340060, lon |-> 362030, city |-> "Baalbek", type |-> "city"]],
    [name |-> "Byblos",
     info |-> [lat |-> 341230, lon |-> 356510, city |-> "Byblos", type |-> "city"]],
    [name |-> "Sidon",
     info |-> [lat |-> 335600, lon |-> 353750, city |-> "Sidon", type |-> "city"]],
    [name |-> "Tyre",
     info |-> [lat |-> 332700, lon |-> 351960, city |-> "Tyre", type |-> "city"]],
    [name |-> "Zahle",
     info |-> [lat |-> 338500, lon |-> 359000, city |-> "Zahle", type |-> "city"]],
    [name |-> "Airport",
     info |-> [lat |-> 338209, lon |-> 354884, city |-> "Beirut", type |-> "airport"]],
    [name |-> "RHUH",
     info |-> [lat |-> 338710, lon |-> 355130, city |-> "Beirut", type |-> "hospital"]]
    >>

PoisTable ==
    <<
    [name |-> "AUBMC",
     lat |-> 338960, lon |-> 354780, type |-> "hospital"],
    [name |-> "Rafik Hariri Univ. Hospital (RHUH)",
     lat |-> 338710, lon |-> 355130, type |-> "hospital"],
    [name |-> "Hotel-Dieu de France",
     lat |-> 338869, lon |-> 355233, type |-> "hospital"],
    [name |-> "LAU Medical Center - Rizk Hospital",
     lat |-> 338927, lon |-> 355159, type |-> "hospital"],
    [name |-> "Baalbek Governmental Hospital",
     lat |-> 340100, lon |-> 362100, type |-> "hospital"],
    [name |-> "Zahle Governmental Hospital",
     lat |-> 338460, lon |-> 359040, type |-> "hospital"],
    [name |-> "American University of Beirut (AUB)",
     lat |-> 339010, lon |-> 354800, type |-> "university"],
    [name |-> "Lebanese American University (LAU) Beirut",
     lat |-> 338957, lon |-> 354865, type |-> "university"],
    [name |-> "Saint Joseph University (USJ) - Huvelin",
     lat |-> 338934, lon |-> 355103, type |-> "university"],
    [name |-> "Beirut Souks",
     lat |-> 339010, lon |-> 355040, type |-> "mall"],
    [name |-> "ABC Achrafieh",
     lat |-> 338860, lon |-> 355210, type |-> "mall"],
    [name |-> "ABC Verdun",
     lat |-> 338830, lon |-> 354860, type |-> "mall"],
    [name |-> "City Centre Beirut",
     lat |-> 338680, lon |-> 355350, type |-> "mall"],
    [name |-> "National Museum of Beirut",
     lat |-> 338833, lon |-> 355192, type |-> "museum"],
    [name |-> "Sursock Museum",
     lat |-> 338920, lon |-> 355171, type |-> "museum"],
    [name |-> "Byblos Archaeological Site",
     lat |-> 341239, lon |-> 356518, type |-> "museum"],
    [name |-> "Baalbek Roman Temples",
     lat |-> 340060, lon |-> 362030, type |-> "museum"],
    [name |-> "Forum de Beyrouth",
     lat |-> 338980, lon |-> 355350, type |-> "venue"],
    [name |-> "Beiteddine Palace (Chouf)",
     lat |-> 336940, lon |-> 355790, type |-> "museum"],
    [name |-> "Roman Hippodrome of Tyre",
     lat |-> 332630, lon |-> 352050, type |-> "museum"],
    [name |-> "Byblos Old Souk",
     lat |-> 341210, lon |-> 356480, type |-> "venue"],
    [name |-> "Al Madina Theatre",
     lat |-> 338937, lon |-> 354867, type |-> "theater"],
    [name |-> "Horsh Beirut",
     lat |-> 338727, lon |-> 355053, type |-> "park"],
    [name |-> "Rouche (Pigeon Rocks)",
     lat |-> 338896, lon |-> 354703, type |-> "park"],
    [name |-> "Tyre Beach (South)",
     lat |-> 332570, lon |-> 352140, type |-> "beach"],
    [name |-> "Ramlet el-Baida Beach",
     lat |-> 338749, lon |-> 354769, type |-> "beach"],
    [name |-> "Beirut-Rafic Hariri International Airport",
     lat |-> 338209, lon |-> 354884, type |-> "airport"],
    [name |-> "Charles Helou Bus Station",
     lat |-> 338994, lon |-> 355199, type |-> "venue"],
    [name |-> "Phoenicia Hotel Beirut",
     lat |-> 339015, lon |-> 354900, type |-> "hotel"],
    [name |-> "Le Gray (Downtown)",
     lat |-> 338967, lon |-> 355019, type |-> "hotel"],
    [name |-> "Tawlet Mar Mikhael",
     lat |-> 338968, lon |-> 355182, type |-> "restaurant"],
    [name |-> "Mayrig Gemmayze",
     lat |-> 338944, lon |-> 355148, type |-> "restaurant"],
    [name |-> "Zahle Wine House",
     lat |-> 338465, lon |-> 359035, type |-> "restaurant"],
    [name |-> "Pharmacy 24/7 Hamra",
     lat |-> 338955, lon |-> 354820, type |-> "pharmacy"],
    [name |-> "US Embassy (Awkar - approx)",
     lat |-> 339560, lon |-> 355890, type |-> "embassy"],
    [name |-> "French Embassy (Achrafieh - approx)",
     lat |-> 338880, lon |-> 355170, type |-> "embassy"],
    [name |-> "Camille Chamoun Sports City Stadium",
     lat |-> 338590, lon |-> 354940, type |-> "stadium"]
    >>

EventsTable ==
    <<
    [title |-> "Founding of Beirut as a Roman colony", year |-> 14,
     lat |-> 338950, lon |-> 354800, region |-> "Beirut",
     description |->
       "Beirut was declared a Roman colonia, marking its emergence as an imperial administrative center."],
    [title |-> "Beirut School of Law rises to prominence", year |-> 350,
     lat |-> 338960, lon |-> 354770, region |-> "Beirut",
     description |->
       "The Beirut Law School shaped major Roman and Byzantine legal codes."],
    [title |-> "Byzantine earthquake devastates Beirut", year |-> 551,
     lat |-> 338950, lon |-> 354800, region |-> "Beirut",
     description |->
       "A catastrophic earthquake destroyed parts of Roman Beirut."],
    [title |-> "Crusader conquest of Beirut", year |-> 1110,
     lat |-> 339010, lon |-> 355010, region |-> "Beirut",
     description |->
       "Crusaders seized Beirut as part of expanding the Kingdom of Jerusalem."],
    [title |-> "Beirut port explosion", year |-> 2020,
     lat |-> 339010, lon |-> 355190, region |-> "Beirut",
     description |->
       "A massive detonation reshaped the city's contemporary history."],
    [title |-> "Temple of Jupiter constructed", year |-> 60,
     lat |-> 340060, lon |-> 362030, region |-> "Baalbek",
     description |->
       "The largest surviving Roman temple columns were erected here."],
    [title |-> "Temple of Bacchus completed", year |-> 150,
     lat |-> 340060, lon |-> 362030, region |-> "Baalbek",
     description |->
       "One of the best-preserved ancient temples in the world."],
    [title |-> "Umayyad citadel reinforced", year |-> 685,
     lat |-> 340060, lon |-> 362030, region |-> "Baalbek",
     description |->
       "Baalbek fortifications were expanded under early Islamic rule."],
    [title |-> "Ma'an dynasty rises", year |-> 1120,
     lat |-> 336940, lon |-> 355800, region |-> "Chouf",
     description |->
       "The Ma'an family consolidated political power in Mount Lebanon."],
    [title |-> "Fakhreddine II reforms", year |-> 1623,
     lat |-> 336950, lon |-> 355800, region |-> "Chouf",
     description |->
       "Economic and administrative reforms linked Mount Lebanon to Mediterranean trade."],
    [title |-> "Crusader County of Tripoli founded", year |-> 1109,
     lat |-> 344380, lon |-> 358300, region |-> "Tripoli",
     description |->
       "Tripoli became the last major Crusader polity in the Levant."],
    [title |-> "Mamluk reconstruction of Tripoli", year |-> 1300,
     lat |-> 344380, lon |-> 358300, region |-> "Tripoli",
     description |->
       "Mamluks rebuilt Tripoli inland after ending Crusader rule."],
    [title |-> "Phoenician expansion from Sidon", year |-> -900,
     lat |-> 335600, lon |-> 353750, region |-> "Sidon",
     description |->
       "Sidon led major Phoenician maritime trade expansions across the Mediterranean."],
    [title |-> "Siege of Tyre by Alexander the Great", year |-> -332,
     lat |-> 332700, lon |-> 351960, region |-> "Tyre",
     description |->
       "Alexander captured Tyre after constructing a causeway to the island city."],
    [title |-> "Byblos develops alphabetic writing", year |-> -1200,
     lat |-> 341230, lon |-> 356510, region |-> "Byblos",
     description |->
       "Byblos played a key role in the evolution of the Phoenician alphabet."],
    [title |-> "Akkar on the frontier of Crusader Antioch", year |-> 1100,
     lat |-> 345900, lon |-> 360800, region |-> "Akkar",
     description |->
       "A contested border zone between Crusaders and regional Islamic powers."],
    [title |-> "Anjar palace constructed", year |-> 715,
     lat |-> 337260, lon |-> 359290, region |-> "Bekaa",
     description |->
       "Anjar was built under the Umayyads as a planned palace city."],
    [title |-> "Rise of Zahle as a trade center", year |-> 1700,
     lat |-> 338500, lon |-> 359000, region |-> "Zahle",
     description |->
       "Zahle emerged as a major trade hub linking the Bekaa Valley with Beirut."],
    [title |-> "Lebanese Independence", year |-> 1943,
     lat |-> 338889, lon |-> 354944, region |-> "Lebanon",
     description |->
       "Lebanon gained independence from the French Mandate."],
    [title |-> "End of Civil War", year |-> 1990,
     lat |-> 338880, lon |-> 354950, region |-> "Lebanon",
     description |->
       "The Taif Agreement ended 15 years of civil conflict."],
    [title |-> "Cedar Revolution", year |-> 2005,
     lat |-> 338880, lon |-> 354950, region |-> "Lebanon",
     description |->
       "Nationwide demonstrations reshaped Lebanon's modern political landscape."]
    >>

(***************************************************************************)
(* Python values.  None is the empty tuple and an optional integer n is    *)
(* <<n>>; float("inf") is a number above every distance of the model.      *)
(***************************************************************************)
None == <<>>

Some(n) == <<n>>

Inf == 2147483647

(***************************************************************************)
(* String operations of the code: str.strip, str.lower, the `in` test.     *)
(***************************************************************************)
Whitespace == {" ", "\t", "\n", "\r"}

UpperCase == "ABCDEFGHIJKLMNOPQRSTUVWXYZ"

LowerCase == "abcdefghijklmnopqrstuvwxyz"

CharAt(s, i) == SubSeq(s, i, i)

\* the lower-case letter of each upper-case letter
LowerTable ==
    [c \in {CharAt(UpperCase, i) : i \in 1..26} |->
        CharAt(LowerCase, CHOOSE i \in 1..26 : CharAt(UpperCase, i) = c)]

LowerChar(c) == IF c \in DOMAIN LowerTable THEN LowerTable[c] ELSE c

RECURSIVE Lower(_)
Lower(s) ==
    IF Len(s) = 0 THEN s
    ELSE LowerChar(CharAt(s, 1)) \o Lower(SubSeq(s, 2, Len(s)))

RECURSIVE LStrip(_)
LStrip(s) ==
    IF Len(s) > 0 /\ CharAt(s, 1) \in Whitespace
    THEN LStrip(SubSeq(s, 2, Len(s)))
    ELSE s

RECURSIVE RStrip(_)
RStrip(s) ==
    IF Len(s) > 0 /\ CharAt(s, Len(s)) \in Whitespace
    THEN RStrip(SubSeq(s, 1, Len(s) - 1))
    ELSE s

Strip(s) == RStrip(LStrip(s))

\* q in s
Contains(q, s) ==
    \E i \in 1..(Len(s) - Len(q) + 1) : SubSeq(s, i, i + Len(q) - 1) = q

(***************************************************************************)
(* GeolocationServer.geocode                                               *)
(***************************************************************************)
\* a bug: the query is lower-cased but not stripped
NormalizeQuery_NoStrip(query) == Lower(query)

NormalizeQuery(query) == Lower(Strip(query))

GeocodeMatch(place) ==
    [name |-> place.name, lat |-> place.info.lat, lon |-> place.info.lon,
     meta |-> place.info]

\* the first loop: return at the first key equal to q
RECURSIVE ExactScan(_, _, _)
ExactScan(places, q, i) ==
    IF i > Len(places) THEN None
    ELSE IF Lower(places[i].name) = q THEN Some(i)
    ELSE ExactScan(places, q, i + 1)

SubstringTest(q, place) ==
    Contains(q, Lower(place.name)) \/ Contains(q, Lower(place.info.city))

\* the second loop: return at the first key or city containing q
RECURSIVE SubstringScan(_, _, _)
SubstringScan(places, q, i) ==
    IF i > Len(places) THEN None
    ELSE IF SubstringTest(q, places[i]) THEN Some(i)
    ELSE SubstringScan(places, q, i + 1)

\* a bug: the substring scan runs first, the exact scan only after it
geocode_SubstringFirst(places, query) ==
    LET q == NormalizeQuery(query)
        exact == ExactScan(places, q, 1)
        sub == SubstringScan(places, q, 1)
    IN  IF sub # None THEN GeocodeMatch(places[sub[1]])
        ELSE IF exact # None THEN GeocodeMatch(places[exact[1]])
        ELSE [error |-> "No match found for '" \o query \o "'"]

\* a bug: no substring fallback
geocode_ExactOnly(places, query) ==
    LET q == NormalizeQuery(query)
        exact == ExactScan(places, q, 1)
    IN  IF exact # None THEN GeocodeMatch(places[exact[1]])
        ELSE [error |-> "No match found for '" \o query \o "'"]

geocode(places, query) ==
    LET q == NormalizeQuery(query)
        exact == ExactScan(places, q, 1)
        sub == SubstringScan(places, q, 1)
    IN  IF exact # None THEN GeocodeMatch(places[exact[1]])
        ELSE IF sub # None THEN GeocodeMatch(places[sub[1]])
        ELSE [error |-> "No match found for '" \o query \o "'"]

(***************************************************************************)
(* GeolocationServer.reverse_geocode                                       *)
(***************************************************************************)
\* a bug: <= for <, so that a later Place at the same distance wins
CloserThan_OrEqual(d, best_d) == d <= best_d

CloserThan(d, best_d) == d < best_d

\* the loop over PLACES: best is the index of the best candidate (None
\* before the first), best_d its distance
RECURSIVE NearestScan(_, _, _, _, _, _)
NearestScan(places, lat, lon, i, best, best_d) ==
    IF i > Len(places) THEN <<best, best_d>>
    ELSE LET d == _haversine_km(lat, lon, places[i].info.lat, places[i].info.lon)
         IN  IF CloserThan(d, best_d)
             THEN NearestScan(places, lat, lon, i + 1, Some(i), d)
             ELSE NearestScan(places, lat, lon, i + 1, best, best_d)

reverse_geocode(places, lat, lon) ==
    LET found == NearestScan(places, lat, lon, 1, None, Inf)
        best == found[1]
        best_d == found[2]
    IN  IF best = None THEN [error |-> "No places available."]
        ELSE LET name == places[best[1]].name
                 info == places[best[1]].info
             IN  [nearest_location |->
                    [name |-> name, city |-> info.city, type |-> info.type,
                     distance_km |-> Round3(best_d),
                     lat |-> info.lat, lon |-> info.lon]]

(***************************************************************************)
(* Python list operations: list.sort(key=...) (stable), a slice lst[:n].   *)
(***************************************************************************)
\* insert x with key k into a list sorted by key, after the entries whose key
\* is <= k: entries with equal keys keep their order of insertion
\* a bug: an entry is put before the entries of equal key, so that entries of
\* equal key come out in the reverse of their order of insertion
RECURSIVE InsertByKey_Unstable(_, _, _)
InsertByKey_Unstable(sorted, k, x) ==
    IF Len(sorted) = 0 THEN <<<<k, x>>>>
    ELSE IF sorted[Len(sorted)][1] < k THEN Append(sorted, <<k, x>>)
    ELSE Append(InsertByKey_Unstable(SubSeq(sorted, 1, Len(sorted) - 1), k, x),
                sorted[Len(sorted)])

RECURSIVE InsertByKey(_, _, _)
InsertByKey(sorted, k, x) ==
    IF Len(sorted) = 0 THEN <<<<k, x>>>>
    ELSE IF sorted[Len(sorted)][1] <= k THEN Append(sorted, <<k, x>>)
    ELSE Append(InsertByKey(SubSeq(sorted, 1, Len(sorted) - 1), k, x),
                sorted[Len(sorted)])

RECURSIVE SortPairs(_, _)
SortPairs(pairs, n) ==
    IF n = 0 THEN <<>>
    ELSE InsertByKey(SortPairs(pairs, n - 1), pairs[n][1], pairs[n][2])

\* lst.sort(key=...): keys[i] is the key of lst[i]
SortByKey(lst, keys) ==
    LET sorted == SortPairs([i \in 1..Len(lst) |-> <<keys[i], lst[i]>>], Len(lst))
    IN  [i \in 1..Len(lst) |-> sorted[i][2]]

\* lst[:n] for an integer n: a negative n counts from the end
Slice(lst, n) ==
    IF n >= 0 THEN SubSeq(lst, 1, IF n < Len(lst) THEN n ELSE Len(lst))
    ELSE SubSeq(lst, 1, IF Len(lst) + n > 0 THEN Len(lst) + n ELSE 0)

\* `if limit is not None: lst = lst[:limit]`
ApplyLimit(lst, limit) == IF limit # None THEN Slice(lst, limit[1]) ELSE lst

(***************************************************************************)
(* Dicts.  A stored record is a dict; a result entry is made from it by    *)
(* entry = dict(rec) and entry[key] = value.                               *)
(***************************************************************************)
\* dict(rec): a new dict with the keys and values of rec
dict(rec) == [k \in DOMAIN rec |-> rec[k]]

\* d[key] = value
SetItem(d, key, value) ==
    [k \in DOMAIN d \cup {key} |-> IF k = key THEN value ELSE d[k]]

\* a bug: entry = rec, the stored dict itself, so that entry[key] = value is
\* written to the stored record
StoredAfterAnnotate_Alias(rec, key, value) == SetItem(rec, key, value)

\* the stored record after entry = dict(rec); entry[key] = value: entry is a
\* dict of its own, and rec is as it was
StoredAfterAnnotate(rec, key, value) == rec

(***************************************************************************)
(* GeolocationServer.nearby_search                                         *)
(***************************************************************************)
NormalizeType(poi_type) == Lower(Strip(poi_type))

TypeMatches(poi, t) == Lower(poi.type) = t

\* a bug: < for <=, so that a POI at exactly radius_km is left out
WithinRadius_Strict(d, radius_km) == d < radius_km

WithinRadius(d, radius_km) == d <= radius_km

\* entry = dict(poi); entry["distance_km"] = round(d, 3)
PoiEntry(poi, d) == SetItem(dict(poi), "distance_km", Round3(d))

\* the loop over POIS, appending to hits
RECURSIVE PoiHits(_, _, _, _, _, _)
PoiHits(pois, lat, lon, t, radius_km, n) ==
    IF n = 0 THEN <<>>
    ELSE LET hits == PoiHits(pois, lat, lon, t, radius_km, n - 1)
             poi == pois[n]
             d == _haversine_km(lat, lon, poi.lat, poi.lon)
         IN  IF ~TypeMatches(poi, t) THEN hits
             ELSE IF WithinRadius(d, radius_km) THEN Append(hits, PoiEntry(poi, d))
             ELSE hits

\* POIS as the loop leaves it
PoisAfterSearch(pois, lat, lon, poi_type, radius_km) ==
    [n \in 1..Len(pois) |->
        IF TypeMatches(pois[n], NormalizeType(poi_type))
           /\ WithinRadius(_haversine_km(lat, lon, pois[n].lat, pois[n].lon), radius_km)
        THEN StoredAfterAnnotate(pois[n], "distance_km",
                Round3(_haversine_km(lat, lon, pois[n].lat, pois[n].lon)))
        ELSE pois[n]]

nearby_search(pois, lat, lon, poi_type, radius_km, limit) ==
    LET t == NormalizeType(poi_type)
        hits == PoiHits(pois, lat, lon, t, radius_km, Len(pois))
        sorted == SortByKey(hits, [i \in 1..Len(hits) |-> hits[i].distance_km])
    IN  [query |-> [lat |-> lat, lon |-> lon, type |-> poi_type,
                    radius_km |-> radius_km],
         results |-> ApplyLimit(sorted, limit)]

(***************************************************************************)
(* HistoricalTimelineServer._filter_years and the three event tools        *)
(***************************************************************************)
\* a bug: <= and >= for < and >, so that the bounds themselves are left out
InYearWindow_Exclusive(y, start_year, end_year) ==
    /\ ~(start_year # None /\ y <= start_year[1])
    /\ ~(end_year # None /\ y >= end_year[1])

InYearWindow(y, start_year, end_year) ==
    /\ ~(start_year # None /\ y < start_year[1])
    /\ ~(end_year # None /\ y > end_year[1])

RECURSIVE _filter_years(_, _, _)
_filter_years(events, start_year, end_year) ==
    IF Len(events) = 0 THEN <<>>
    ELSE LET out == _filter_years(SubSeq(events, 1, Len(events) - 1),
                                  start_year, end_year)
             ev == events[Len(events)]
         IN  IF InYearWindow(ev.year, start_year, end_year)
             THEN Append(out, ev) ELSE out

\* entry = dict(ev); entry["distance_km"] = round(d, 3)
EventEntry(ev, d) == SetItem(dict(ev), "distance_km", Round3(d))

RECURSIVE EventHits(_, _, _, _, _)
EventHits(events, lat, lon, radius_km, n) ==
    IF n = 0 THEN <<>>
    ELSE LET results == EventHits(events, lat, lon, radius_km, n - 1)
             ev == events[n]
             d == _distance_km(lat, lon, ev.lat, ev.lon)
         IN  IF d <= radius_km THEN Append(results, EventEntry(ev, d))
             ELSE results

\* EVENTS as the loop leaves it: _filter_years hands on the stored dicts
EventsAfterSearch(allEvents, lat, lon, radius_km, start_year, end_year) ==
    [n \in 1..Len(allEvents) |->
        IF InYearWindow(allEvents[n].year, start_year, end_year)
           /\ _distance_km(lat, lon, allEvents[n].lat, allEvents[n].lon) <= radius_km
        THEN StoredAfterAnnotate(allEvents[n], "distance_km",
                Round3(_distance_km(lat, lon, allEvents[n].lat, allEvents[n].lon)))
        ELSE allEvents[n]]

events_near_location(allEvents, lat, lon, radius_km, start_year, end_year) ==
    LET events == _filter_years(allEvents, start_year, end_year)
        results == EventHits(events, lat, lon, radius_km, Len(events))
    IN  [query |-> [lat |-> lat, lon |-> lon, radius_km |-> radius_km],
         events |-> SortByKey(results,
                              [i \in 1..Len(results) |-> results[i].distance_km])]

RegionMatches(r, ev) == Contains(r, Lower(ev.region))

\* [ev for ev in EVENTS if r in ev["region"].lower()]
RECURSIVE RegionMatchList(_, _, _)
RegionMatchList(events, r, n) ==
    IF n = 0 THEN <<>>
    ELSE LET matches == RegionMatchList(events, r, n - 1)
         IN  IF RegionMatches(r, events[n]) THEN Append(matches, events[n])
             ELSE matches

region_timeline(allEvents, region_name, start_year, end_year, limit) ==
    LET r == Lower(region_name)
        matches == RegionMatchList(allEvents, r, Len(allEvents))
        filtered == _filter_years(matches, start_year, end_year)
        sorted == SortByKey(filtered, [i \in 1..Len(filtered) |-> filtered[i].year])
    IN  [region |-> region_name, timeline |-> ApplyLimit(sorted, limit)]

(***************************************************************************)
(* route_history_summary.  A path is a sequence of <<lat, lon>> pairs.     *)
(***************************************************************************)
\* total += _distance_km(path[i], path[i + 1]) for i in range(len(path) - 1)
RECURSIVE PathLength(_, _)
PathLength(path, n) ==
    IF n <= 1 THEN 0
    ELSE PathLength(path, n - 1)
         + _distance_km(path[n - 1][1], path[n - 1][2], path[n][1], path[n][2])

RECURSIVE MinOver(_, _)
MinOver(ds, n) ==
    IF n = 1 THEN ds[1]
    ELSE LET m == MinOver(ds, n - 1) IN IF ds[n] < m THEN ds[n] ELSE m

\* a bug: the distance to the route's segments is approximated as well, by the
\* distance to the point halfway between two consecutive vertices
Closest_WithMidpoints(path, ev) ==
    LET stops == [i \in 1..(2 * Len(path) - 1) |->
                    IF i % 2 = 1 THEN path[(i + 1) \div 2]
                    ELSE <<(path[i \div 2][1] + path[i \div 2 + 1][1]) \div 2,
                           (path[i \div 2][2] + path[i \div 2 + 1][2]) \div 2>>]
    IN  MinOver([i \in 1..Len(stops) |->
                    _distance_km(stops[i][1], stops[i][2], ev.lat, ev.lon)],
                Len(stops))

\* min(_distance_km(lat, lon, ev.lat, ev.lon) for lat, lon in path)
Closest(path, ev) ==
    MinOver([i \in 1..Len(path) |->
                _distance_km(path[i][1], path[i][2], ev.lat, ev.lon)], Len(path))

\* entry = dict(ev); entry["distance_to_route_km"] = round(closest, 3)
RouteEntry(ev, closest) ==
    SetItem(dict(ev), "distance_to_route_km", Round3(closest))

\* a bug: < for <=, so that an event at exactly corridor_km is left out
InCorridor_Strict(closest, corridor_km) == closest < corridor_km

\* if closest <= corridor_km
InCorridor(closest, corridor_km) == closest <= corridor_km

RECURSIVE NearbyEvents(_, _, _, _)
NearbyEvents(events, path, corridor_km, n) ==
    IF n = 0 THEN <<>>
    ELSE LET nearby == NearbyEvents(events, path, corridor_km, n - 1)
             closest == Closest(path, events[n])
         IN  IF InCorridor(closest, corridor_km)
             THEN Append(nearby, RouteEntry(events[n], closest))
             ELSE nearby

\* the order of Python's str comparison on the characters of the region labels
CodeOrder == " ABCDEFGHIJKLMNOPQRSTUVWXYZabcdefghijklmnopqrstuvwxyz"

Ord(c) == CHOOSE i \in 1..Len(CodeOrder) : CharAt(CodeOrder, i) = c

RECURSIVE StrLess(_, _)
StrLess(a, b) ==
    IF Len(b) = 0 THEN FALSE
    ELSE IF Len(a) = 0 THEN TRUE
    ELSE IF CharAt(a, 1) # CharAt(b, 1) THEN Ord(CharAt(a, 1)) < Ord(CharAt(b, 1))
    ELSE StrLess(SubSeq(a, 2, Len(a)), SubSeq(b, 2, Len(b)))

\* sorted(S) for a set S of strings
RECURSIVE SortedStrings(_)
SortedStrings(S) ==
    IF S = {} THEN <<>>
    ELSE LET least == CHOOSE x \in S : \A y \in S \ {x} : StrLess(x, y)
         IN  <<least>> \o SortedStrings(S \ {least})

\* sep.join(strs)
RECURSIVE Join(_, _)
Join(strs, sep) ==
    IF Len(strs) = 0 THEN ""
    ELSE IF Len(strs) = 1 THEN strs[1]
    ELSE strs[1] \o sep \o Join(SubSeq(strs, 2, Len(strs)), sep)

\* a bug: the region of every event is listed, in the events' order, without
\* sorted(set(...)), so that a region is named once for each of its events
RouteNarrative_RegionPerEvent(nearby) ==
    "This route intersects historically significant regions including "
    \o Join([i \in 1..Len(nearby) |-> nearby[i].region], ", ")
    \o ". Events span from " \o ToString(nearby[1].year)
    \o " to " \o ToString(nearby[Len(nearby)].year) \o ", covering Phoenician, Hellenistic, "
    \o "Roman, Byzantine, Islamic, Mamluk, Ottoman, and modern Lebanese periods."

RouteNarrative(nearby) ==
    LET regions == SortedStrings({nearby[i].region : i \in 1..Len(nearby)})
        earliest == nearby[1].year
        latest == nearby[Len(nearby)].year
    IN  "This route intersects historically significant regions including "
        \o Join(regions, ", ") \o ". Events span from " \o ToString(earliest)
        \o " to " \o ToString(latest) \o ", covering Phoenician, Hellenistic, "
        \o "Roman, Byzantine, Islamic, Mamluk, Ottoman, and modern Lebanese periods."

\* a bug: only the empty path is rejected
IsTooShort_EmptyOnly(path) == Len(path) < 1

\* if len(path) < 2
IsTooShort(path) == Len(path) < 2

\* EVENTS as the call leaves it
EventsAfterRoute(events, path, corridor_km) ==
    IF IsTooShort(path) THEN events
    ELSE [n \in 1..Len(events) |->
            IF InCorridor(Closest(path, events[n]), corridor_km)
            THEN StoredAfterAnnotate(events[n], "distance_to_route_km",
                    Round3(Closest(path, events[n])))
            ELSE events[n]]

route_history_summary(events, path, corridor_km) ==
    IF IsTooShort(path)
    THEN [selected_events |-> <<>>,
          summary |-> "Route is too short for evaluation.",
          path_length_km |-> 0]
    ELSE LET total == PathLength(path, Len(path))
             found == NearbyEvents(events, path, corridor_km, Len(events))
             nearby == SortByKey(found, [i \in 1..Len(found) |-> found[i].year])
             summary == IF Len(nearby) > 0 THEN RouteNarrative(nearby)
                        ELSE "No historical events fall within the specified corridor."
         IN  [path_length_km |-> Round3(total),
              corridor_km |-> corridor_km,
              selected_events |-> nearby,
              summary |-> summary]

(***************************************************************************)
(* The arguments the callers pass, drawn from bounded sets.                *)
(***************************************************************************)
MaxStemLen == 2

MaxPad == 1

MaxLimit == 2

MaxBoundary == 1

MaxPathLen == 2

UpperTable ==
    [c \in {CharAt(LowerCase, i) : i \in 1..26} |->
        CharAt(UpperCase, CHOOSE i \in 1..26 : CharAt(LowerCase, i) = c)]

UpperChar(c) == IF c \in DOMAIN UpperTable THEN UpperTable[c] ELSE c

RECURSIVE Upper(_)
Upper(s) ==
    IF Len(s) = 0 THEN s
    ELSE UpperChar(CharAt(s, 1)) \o Upper(SubSeq(s, 2, Len(s)))

\* the substrings of s of at most n characters
Substrings(s, n) ==
    {SubSeq(s, w[1], w[2]) :
        w \in {v \in (1..Len(s)) \X (0..Len(s)) :
                 v[2] >= v[1] - 1 /\ v[2] - v[1] < n}}

\* names, cities, and texts that match nothing
QueryTexts ==
    {PlacesTable[i].name : i \in 1..Len(PlacesTable)}
    \cup {PlacesTable[i].info.city : i \in 1..Len(PlacesTable)}
    \cup {"xyz", "nonexistent-place-xyz", "A UB"}

QueryStems ==
    QueryTexts
    \cup UNION {Substrings(s, MaxStemLen) : s \in QueryTexts}

PadChars == " \t\n\r \t\n\r"

Pad(n) == SubSeq(PadChars, 1, n)

\* a stem as written, in lower case, in upper case, with blanks around it
Queries ==
    {Pad(l) \o v \o Pad(r) :
        l \in 0..MaxPad, r \in 0..MaxPad,
        v \in UNION {{s, Lower(s), Upper(s)} : s \in QueryStems}}

\* AUB, Beirut, Baalbek, Tyre, the National Museum of Beirut, a point at the
\* same distance from AUB and from Beirut, a point in the sea
Coords ==
    {<<339010, 354800>>, <<338938, 355018>>, <<340060, 362030>>,
     <<332700, 351960>>, <<338833, 355192>>, <<338920, 354883>>,
     <<338000, 350000>>}

\* the coordinates of every Place
PlaceCoords ==
    {<<PlacesTable[i].info.lat, PlacesTable[i].info.lon>> : i \in 1..Len(PlacesTable)}

\* the points a route goes through: Beirut, Baalbek, Tyre, the point in the sea
Waypoints ==
    {<<338938, 355018>>, <<340060, 362030>>, <<332700, 351960>>, <<338000, 350000>>}

PoiTypes ==
    {"hospital", " HOSPITAL\t", "hosp", "Museum", "mall ", "venue", "zoo", ""}

RegionNames ==
    {"Beirut", "BAALBEK", "B", "ba", "Lebanon", "e", "", " Beirut", "Atlantis"}

DefaultNearbyLimit == 10

DefaultTimelineLimit == 25

\* no limit, the default, and the small limits of either sign
Limits(default) == {None, Some(default)} \cup {Some(n) : n \in (-MaxLimit)..MaxLimit}

YearBounds == {None, Some(-900), Some(551), Some(1110), Some(1943)}

FixedRadii == {0, 3000000, 5000000, 20000000, 40000000}

\* the fixed radii, and the exact distances to the first entries of a table
Radii(lat, lon, table) ==
    FixedRadii
    \cup {_haversine_km(lat, lon, table[i].lat, table[i].lon) :
            i \in {j \in 1..Len(table) : j <= MaxBoundary}}

\* the fixed widths, and the exact distances of the first events from a path
CorridorWidths(path, events) ==
    FixedRadii
    \cup (IF Len(path) = 0 THEN {}
          ELSE {Closest(path, events[i]) :
                  i \in {j \in 1..Len(events) : j <= MaxBoundary}})

RECURSIVE PathsOfLen(_)
PathsOfLen(n) ==
    IF n = 0 THEN {<<>>}
    ELSE {Append(p, c) : p \in PathsOfLen(n - 1), c \in Waypoints}

Paths == UNION {PathsOfLen(n) : n \in 0..MaxPathLen}

(***************************************************************************)
(* The state machine: a caller (the agent's tool runner) invokes one tool  *)
(* at a time with its arguments and takes the returned dict.               *)
(***************************************************************************)
NoCall == [op |-> "none"]

NoResult == [none |-> TRUE]

\* the requests the chat front end serves at the same time, each running the
\* agent and, through it, the tools
Callers == {"first", "second"}

\* a request that has no tool call under way
Idle == [pc |-> "ready", call |-> NoCall, result |-> NoResult]

Init ==
    /\ PLACES = PlacesTable
    /\ POIS = PoisTable
    /\ EVENTS = EventsTable
    /\ pc = "ready"
    /\ call = NoCall
    /\ result = NoResult
    /\ sessions = [c \in Callers |-> Idle]

Geocode ==
    /\ pc = "ready"
    /\ \E query \in Queries :
        /\ call' = [op |-> "geocode", query |-> query]
        /\ result' = geocode(PLACES, query)
    /\ pc' = "returned"
    /\ UNCHANGED <<PLACES, POIS, EVENTS, sessions>>

ReverseGeocode ==
    /\ pc = "ready"
    /\ \E c \in Coords \cup PlaceCoords :
        /\ call' = [op |-> "reverse_geocode", lat |-> c[1], lon |-> c[2]]
        /\ result' = reverse_geocode(PLACES, c[1], c[2])
    /\ pc' = "returned"
    /\ UNCHANGED <<PLACES, POIS, EVENTS, sessions>>

NearbySearch ==
    /\ pc = "ready"
    /\ \E c \in Coords, poi_type \in PoiTypes, limit \in Limits(DefaultNearbyLimit) :
       \E radius_km \in Radii(c[1], c[2], POIS) :
        /\ call' = [op |-> "nearby_search", lat |-> c[1], lon |-> c[2],
                    poi_type |-> poi_type, radius_km |-> radius_km,
                    limit |-> limit]
        /\ result' = nearby_search(POIS, c[1], c[2], poi_type, radius_km, limit)
        /\ POIS' = PoisAfterSearch(POIS, c[1], c[2], poi_type, radius_km)
    /\ pc' = "returned"
    /\ UNCHANGED <<PLACES, EVENTS, sessions>>

EventsNearLocation ==
    /\ pc = "ready"
    /\ \E c \in Coords, start_year \in YearBounds, end_year \in YearBounds :
       \E radius_km \in Radii(c[1], c[2], EVENTS) :
        /\ call' = [op |-> "events_near_location", lat |-> c[1], lon |-> c[2],
                    radius_km |-> radius_km, start_year |-> start_year,
                    end_year |-> end_year]
        /\ result' = events_near_location(EVENTS, c[1], c[2], radius_km,
                                          start_year, end_year)
        /\ EVENTS' = EventsAfterSearch(EVENTS, c[1], c[2], radius_km,
                                       start_year, end_year)
    /\ pc' = "returned"
    /\ UNCHANGED <<PLACES, POIS, sessions>>

RegionTimeline ==
    /\ pc = "ready"
    /\ \E region_name \in RegionNames, start_year \in YearBounds,
          end_year \in YearBounds, limit \in Limits(DefaultTimelineLimit) :
        /\ call' = [op |-> "region_timeline", region_name |-> region_name,
                    start_year |-> start_year, end_year |-> end_year,
                    limit |-> limit]
        /\ result' = region_timeline(EVENTS, region_name, start_year, end_year,
                                     limit)
    /\ pc' = "returned"
    /\ UNCHANGED <<PLACES, POIS, EVENTS, sessions>>

RouteHistorySummary ==
    /\ pc = "ready"
    /\ \E path \in Paths : \E corridor_km \in CorridorWidths(path, EVENTS) :
        /\ call' = [op |-> "route_history_summary", path |-> path,
                    corridor_km |-> corridor_km]
        /\ result' = route_history_summary(EVENTS, path, corridor_km)
        /\ EVENTS' = EventsAfterRoute(EVENTS, path, corridor_km)
    /\ pc' = "returned"
    /\ UNCHANGED <<PLACES, POIS, sessions>>

\* the caller has the result; the next call can be made
Return ==
    /\ pc = "returned"
    /\ pc' = "ready"
    /\ call' = NoCall
    /\ result' = NoResult
    /\ UNCHANGED <<PLACES, POIS, EVENTS, sessions>>

Next ==
    \/ Geocode
    \/ ReverseGeocode
    \/ NearbySearch
    \/ EventsNearLocation
    \/ RegionTimeline
    \/ RouteHistorySummary
    \/ Return

Spec == Init /\ [][Next]_vars

(***************************************************************************)
(* Two requests served at the same time.  Each calls the tools on the      *)
(* same PLACES, POIS and EVENTS and keeps the dict a tool returned until   *)
(* it asks again, so that one request can hold a result while the other    *)
(* makes any number of calls.  The arguments are a few of those above.     *)
(***************************************************************************)
\* Beirut, Baalbek
SampleCoords == {<<338938, 355018>>, <<340060, 362030>>}

SampleQueries == {"aub", " Xyz"}

SampleRegions == {"Beirut", "Baalbek"}

SamplePaths == {<<<<338938, 355018>>, <<340060, 362030>>>>, <<<<340060, 362030>>>>}

\* request c gets the returned dict res of the call it made
Answer(c, made, res) ==
    /\ sessions[c].pc = "ready"
    /\ sessions' = [sessions EXCEPT ![c] =
                        [pc |-> "returned", call |-> made, result |-> res]]
    /\ UNCHANGED <<pc, call, result>>

ServeGeocode ==
    /\ \E c \in Callers, query \in SampleQueries :
          Answer(c, [op |-> "geocode", query |-> query], geocode(PLACES, query))
    /\ UNCHANGED <<PLACES, POIS, EVENTS>>

ServeReverseGeocode ==
    /\ \E c \in Callers, at \in SampleCoords :
          Answer(c, [op |-> "reverse_geocode", lat |-> at[1], lon |-> at[2]],
                 reverse_geocode(PLACES, at[1], at[2]))
    /\ UNCHANGED <<PLACES, POIS, EVENTS>>

ServeNearbySearch ==
    /\ \E c \in Callers, at \in SampleCoords :
          /\ Answer(c, [op |-> "nearby_search", lat |-> at[1], lon |-> at[2],
                        poi_type |-> "hospital", radius_km |-> 5000000,
                        limit |-> Some(DefaultNearbyLimit)],
                    nearby_search(POIS, at[1], at[2], "hospital", 5000000,
                                  Some(DefaultNearbyLimit)))
          /\ POIS' = PoisAfterSearch(POIS, at[1], at[2], "hospital", 5000000)
    /\ UNCHANGED <<PLACES, EVENTS>>

ServeEventsNearLocation ==
    /\ \E c \in Callers, at \in SampleCoords :
          /\ Answer(c, [op |-> "events_near_location", lat |-> at[1],
                        lon |-> at[2], radius_km |-> 20000000,
                        start_year |-> None, end_year |-> None],
                    events_near_location(EVENTS, at[1], at[2], 20000000, None, None))
          /\ EVENTS' = EventsAfterSearch(EVENTS, at[1], at[2], 20000000, None, None)
    /\ UNCHANGED <<PLACES, POIS>>

ServeRegionTimeline ==
    /\ \E c \in Callers, region_name \in SampleRegions :
          Answer(c, [op |-> "region_timeline", region_name |-> region_name,
                     start_year |-> None, end_year |-> None,
                     limit |-> Some(DefaultTimelineLimit)],
                 region_timeline(EVENTS, region_name, None, None,
                                 Some(DefaultTimelineLimit)))
    /\ UNCHANGED <<PLACES, POIS, EVENTS>>

ServeRouteHistorySummary ==
    /\ \E c \in Callers, path \in SamplePaths :
          /\ Answer(c, [op |-> "route_history_summary", path |-> path,
                        corridor_km |-> 40000000],
                    route_history_summary(EVENTS, path, 40000000))
          /\ EVENTS' = EventsAfterRoute(EVENTS, path, 40000000)
    /\ UNCHANGED <<PLACES, POIS>>

\* the request has used the result and may call again
Release ==
    /\ \E c \in Callers :
          /\ sessions[c].pc = "returned"
          /\ sessions' = [sessions EXCEPT ![c] = Idle]
    /\ UNCHANGED <<PLACES, POIS, EVENTS, pc, call, result>>

NextConcurrent ==
    \/ ServeGeocode
    \/ ServeReverseGeocode
    \/ ServeNearbySearch
    \/ ServeEventsNearLocation
    \/ ServeRegionTimeline
    \/ ServeRouteHistorySummary
    \/ Release

SpecConcurrent == Init /\ [][NextConcurrent]_vars

(***************************************************************************)
(* Definitions the statements below share.                                 *)
(***************************************************************************)
Returned(op) == pc = "returned" /\ call.op = op

MinOf(S) == CHOOSE x \in S : \A y \in S : x <= y

Reverse(s) == [i \in 1..Len(s) |-> s[Len(s) + 1 - i]]

\* the tables a statement about every ordered table is checked on: the
\* table, each of its prefixes (the empty one too), and the table reversed
TablesOf(table) == {SubSeq(table, 1, n) : n \in 0..Len(table)} \cup {Reverse(table)}

ExactIndices(places, q) == {i \in 1..Len(places) : Lower(places[i].name) = q}

ContainingIndices(places, q) ==
    {i \in 1..Len(places) :
        Contains(q, Lower(places[i].name)) \/ Contains(q, Lower(places[i].info.city))}

IsMatchOf(res, place) ==
    /\ DOMAIN res = {"name", "lat", "lon", "meta"}
    /\ res.name = place.name
    /\ res.lat = place.info.lat
    /\ res.lon = place.info.lon
    /\ res.meta = place.info

IsNoMatch(res) == DOMAIN res = {"error"}

(***************************************************************************)
(* C1: geocode returns the first Place (in table order) whose lower-cased  *)
(* name equals the trimmed, lower-cased query if there is one, even when   *)
(* an earlier Place contains the query in its name or city; otherwise the  *)
(* first Place whose lower-cased name or city contains it.                 *)
(***************************************************************************)
GeocodeContract(places, query, res) ==
    LET q == Lower(Strip(query))
        exact == ExactIndices(places, q)
        containing == ContainingIndices(places, q)
    IN  /\ exact # {} => IsMatchOf(res, places[MinOf(exact)])
        /\ (exact = {} /\ containing # {}) => IsMatchOf(res, places[MinOf(containing)])

C1_GeocodeExactThenSubstring ==
    Returned("geocode") =>
        /\ GeocodeContract(PLACES, call.query, result)
        /\ \A T \in TablesOf(PLACES) :
              GeocodeContract(T, call.query, geocode(T, call.query))

\* "Beirut" has returned the Place Beirut although AUB, earlier in the table,
\* contains the query in its city
C1_Witness ==
    /\ Returned("geocode")
    /\ \E i \in ExactIndices(PLACES, Lower(Strip(call.query))) :
          /\ result.name = PLACES[i].name
          /\ \E j \in ContainingIndices(PLACES, Lower(Strip(call.query))) : j < i

(***************************************************************************)
(* C2: geocode returns a no-match value (a record with only an error       *)
(* field, carrying the query as it was given) if and only if no Place's    *)
(* lower-cased name or city contains the trimmed, lower-cased query; in    *)
(* every other case it returns a match record with name, lat, lon and      *)
(* meta.  A query that normalizes to the empty string is never a no-match  *)
(* on a non-empty table.                                                   *)
(***************************************************************************)
GeocodeNoMatchContract(places, query, res) ==
    LET q == Lower(Strip(query))
        containing == ContainingIndices(places, q)
    IN  /\ IsNoMatch(res) <=> containing = {}
        /\ containing = {} => Contains(query, res.error)
        /\ containing # {} => DOMAIN res = {"name", "lat", "lon", "meta"}
        /\ (q = "" /\ Len(places) > 0) => ~IsNoMatch(res)

C2_GeocodeNoMatchIffNothingContains ==
    Returned("geocode") =>
        /\ GeocodeNoMatchContract(PLACES, call.query, result)
        /\ \A T \in TablesOf(PLACES) :
              GeocodeNoMatchContract(T, call.query, geocode(T, call.query))

\* a no-match for a query whose normal form differs from what was given
C2_Witness ==
    /\ Returned("geocode")
    /\ IsNoMatch(result)
    /\ Lower(call.query) # call.query
    /\ Strip(call.query) # call.query

(***************************************************************************)
(* C3: two queries that differ only in letter case and in leading and      *)
(* trailing whitespace get the same match whenever either of them matches. *)
(***************************************************************************)
SameLetter(a, b) ==
    \/ a = b
    \/ a \in DOMAIN LowerTable /\ LowerTable[a] = b
    \/ b \in DOMAIN LowerTable /\ LowerTable[b] = a

DiffersOnlyInCaseAndBlanks(q1, q2) ==
    LET c1 == Strip(q1)
        c2 == Strip(q2)
    IN  /\ Len(c1) = Len(c2)
        /\ \A k \in 1..Len(c1) : SameLetter(CharAt(c1, k), CharAt(c2, k))

C3_GeocodeIgnoresCaseAndBlanks ==
    Returned("geocode") =>
        \A q2 \in Queries :
            DiffersOnlyInCaseAndBlanks(call.query, q2) =>
                ((~IsNoMatch(result) \/ ~IsNoMatch(geocode(PLACES, q2)))
                    => geocode(PLACES, q2) = result)

\* a match for a query that has a partner differing from it in case and in
\* blanks
C3_Witness ==
    /\ Returned("geocode")
    /\ ~IsNoMatch(result)
    /\ \E q2 \in Queries :
          /\ DiffersOnlyInCaseAndBlanks(call.query, q2)
          /\ Strip(q2) # Strip(call.query)
          /\ Len(q2) # Len(call.query)

(***************************************************************************)
(* C4: reverse_geocode returns a Place at the minimum distance from the    *)
(* coordinate, the first in table order of those at that distance; it      *)
(* returns the error value if and only if the table is empty.              *)
(***************************************************************************)
DistanceTo(places, i, lat, lon) ==
    _haversine_km(lat, lon, places[i].info.lat, places[i].info.lon)

ReverseGeocodeContract(places, lat, lon, res) ==
    /\ IsNoMatch(res) <=> Len(places) = 0
    /\ Len(places) > 0 =>
        /\ DOMAIN res = {"nearest_location"}
        /\ \E i \in 1..Len(places) :
              /\ res.nearest_location.name = places[i].name
              /\ res.nearest_location.lat = places[i].info.lat
              /\ res.nearest_location.lon = places[i].info.lon
              /\ \A j \in 1..Len(places) :
                    DistanceTo(places, i, lat, lon) <= DistanceTo(places, j, lat, lon)
              /\ \A j \in 1..(i - 1) :
                    DistanceTo(places, i, lat, lon) < DistanceTo(places, j, lat, lon)

C4_ReverseGeocodeFirstNearest ==
    Returned("reverse_geocode") =>
        /\ ReverseGeocodeContract(PLACES, call.lat, call.lon, result)
        /\ \A T \in TablesOf(PLACES) :
              ReverseGeocodeContract(T, call.lat, call.lon,
                                     reverse_geocode(T, call.lat, call.lon))

\* two Places at the same, minimum, distance: the earlier one has returned
C4_Witness ==
    /\ Returned("reverse_geocode")
    /\ \E i, j \in 1..Len(PLACES) :
          /\ i < j
          /\ DistanceTo(PLACES, i, call.lat, call.lon)
                = DistanceTo(PLACES, j, call.lat, call.lon)
          /\ \A k \in 1..Len(PLACES) :
                DistanceTo(PLACES, i, call.lat, call.lon)
                    <= DistanceTo(PLACES, k, call.lat, call.lon)
          /\ result.nearest_location.name = PLACES[i].name

(***************************************************************************)
(* C5: for every Place P of the table, reverse_geocode at P's own lat and  *)
(* lon returns nearest_location with P's name and distance_km = 0.         *)
(***************************************************************************)
C5_ReverseGeocodeOwnCoordinates ==
    Returned("reverse_geocode") =>
        \A i \in 1..Len(PLACES) :
            (call.lat = PLACES[i].info.lat /\ call.lon = PLACES[i].info.lon) =>
                /\ DOMAIN result = {"nearest_location"}
                /\ result.nearest_location.name = PLACES[i].name
                /\ result.nearest_location.distance_km = 0

\* the call at the coordinates of the last Place of the table has returned it
C5_Witness ==
    /\ Returned("reverse_geocode")
    /\ call.lat = PLACES[Len(PLACES)].info.lat
    /\ call.lon = PLACES[Len(PLACES)].info.lon
    /\ result.nearest_location.name = PLACES[Len(PLACES)].name

(***************************************************************************)
(* C6: with limit absent, the results of nearby_search are exactly the     *)
(* POIs whose type equals poi_type case-insensitively as a whole string    *)
(* and whose distance is <= radius_km (a POI at exactly radius_km is in);  *)
(* with a limit every returned entry still satisfies both conditions.      *)
(* As stated, with poi_type taken as given, this fails: the code strips    *)
(* poi_type first.  C6_NearbySearchExactType states it as claimed,         *)
(* C6_NearbySearchStrippedType with the stripped poi_type.                 *)
(***************************************************************************)
\* an entry without its distance_km: the stored POI it was copied from
PoiOf(entry) ==
    [name |-> entry.name, lat |-> entry.lat, lon |-> entry.lon, type |-> entry.type]

PoiDistance(pois, i, lat, lon) == _haversine_km(lat, lon, pois[i].lat, pois[i].lon)

QualifyingPois(pois, lat, lon, wanted, radius_km) ==
    {i \in 1..Len(pois) :
        Lower(pois[i].type) = Lower(wanted)
        /\ PoiDistance(pois, i, lat, lon) <= radius_km}

NearbyContract(pois, c, wanted, res) ==
    LET Q == QualifyingPois(pois, c.lat, c.lon, wanted, c.radius_km)
    IN  /\ DOMAIN res = {"query", "results"}
        /\ \A k \in 1..Len(res.results) : \E i \in Q : PoiOf(res.results[k]) = pois[i]
        /\ c.limit = None =>
              /\ Len(res.results) = Cardinality(Q)
              /\ {PoiOf(res.results[k]) : k \in 1..Len(res.results)} = {pois[i] : i \in Q}

C6_NearbySearchExactType ==
    Returned("nearby_search") => NearbyContract(POIS, call, call.poi_type, result)

C6_NearbySearchStrippedType ==
    Returned("nearby_search") => NearbyContract(POIS, call, Strip(call.poi_type), result)

\* no limit, a poi_type with blanks around it, and among the results a POI
\* that lies at exactly radius_km
C6_Witness ==
    /\ Returned("nearby_search")
    /\ call.limit = None
    /\ Strip(call.poi_type) # call.poi_type
    /\ call.radius_km > 0
    /\ \E k \in 1..Len(result.results) : \E i \in 1..Len(POIS) :
          /\ PoiOf(result.results[k]) = POIS[i]
          /\ PoiDistance(POIS, i, call.lat, call.lon) = call.radius_km

(***************************************************************************)
(* C7: for every integer limit the results of nearby_search are the first  *)
(* limit entries of the full distance-sorted hit list, so at most limit of *)
(* them (none for a limit below 1); with no limit the full list.           *)
(***************************************************************************)
\* the first n entries of a list: all of it when it has fewer, none for n <= 0
FirstEntries(lst, n) ==
    SubSeq(lst, 1, IF n <= 0 THEN 0 ELSE IF n < Len(lst) THEN n ELSE Len(lst))

C7_NearbySearchLimit ==
    Returned("nearby_search") =>
        LET full == nearby_search(POIS, call.lat, call.lon, call.poi_type,
                                  call.radius_km, None).results
        IN  IF call.limit = None THEN result.results = full
            ELSE result.results = FirstEntries(full, call.limit[1])

(***************************************************************************)
(* C8: events_near_location returns exactly the events with                *)
(* start_year <= year <= end_year (a null bound constrains nothing, both   *)
(* ends inclusive) and distance <= radius_km, none cut off; when no event  *)
(* qualifies the events list is empty and the result is not an error.      *)
(***************************************************************************)
YearInRange(y, start_year, end_year) ==
    /\ start_year = None \/ start_year[1] <= y
    /\ end_year = None \/ y <= end_year[1]

\* an entry without its distance: the stored event it was copied from
EventOf(entry) ==
    [title |-> entry.title, year |-> entry.year, lat |-> entry.lat,
     lon |-> entry.lon, region |-> entry.region, description |-> entry.description]

QualifyingEvents(events, c) ==
    {i \in 1..Len(events) :
        /\ YearInRange(events[i].year, c.start_year, c.end_year)
        /\ _distance_km(c.lat, c.lon, events[i].lat, events[i].lon) <= c.radius_km}

C8_EventsNearLocationExact ==
    Returned("events_near_location") =>
        LET Q == QualifyingEvents(EVENTS, call)
        IN  /\ DOMAIN result = {"query", "events"}
            /\ Len(result.events) = Cardinality(Q)
            /\ {EventOf(result.events[k]) : k \in 1..Len(result.events)}
                  = {EVENTS[i] : i \in Q}

\* both bounds given, and returned events dated at each of them
C8_Witness ==
    /\ Returned("events_near_location")
    /\ call.start_year # None
    /\ call.end_year # None
    /\ call.start_year # call.end_year
    /\ \E k \in 1..Len(result.events) : result.events[k].year = call.start_year[1]
    /\ \E k \in 1..Len(result.events) : result.events[k].year = call.end_year[1]

(***************************************************************************)
(* C9: region_timeline returns the events whose region contains            *)
(* region_name as a case-insensitive substring and whose year is in the    *)
(* inclusive range, in strictly ascending year, cut to the first limit of  *)
(* them (the chronologically earliest; none for a limit below 1); an empty *)
(* timeline, not an error, when nothing matches.                           *)
(***************************************************************************)
MatchingEvents(events, c) ==
    {i \in 1..Len(events) :
        /\ Contains(Lower(c.region_name), Lower(events[i].region))
        /\ YearInRange(events[i].year, c.start_year, c.end_year)}

C9_RegionTimeline ==
    Returned("region_timeline") =>
        LET M == MatchingEvents(EVENTS, call)
            tl == result.timeline
            kept == IF call.limit = None THEN Cardinality(M)
                    ELSE IF call.limit[1] <= 0 THEN 0
                    ELSE IF call.limit[1] < Cardinality(M) THEN call.limit[1]
                    ELSE Cardinality(M)
        IN  /\ DOMAIN result = {"region", "timeline"}
            /\ \A k \in 1..Len(tl) : \E i \in M : tl[k] = EVENTS[i]
            /\ \A k \in 1..(Len(tl) - 1) : tl[k].year < tl[k + 1].year
            /\ \A i \in M :
                  (\A k \in 1..Len(tl) : tl[k] # EVENTS[i]) =>
                      \A k \in 1..Len(tl) : tl[k].year <= EVENTS[i].year
            /\ Len(tl) = kept

(***************************************************************************)
(* C10: for a path of fewer than 2 points and any corridor_km,             *)
(* route_history_summary returns, without error, path_length_km = 0, an    *)
(* empty selected_events and the fixed note as summary, however close the  *)
(* single point is to an event.                                            *)
(***************************************************************************)
C10_ShortRoute ==
    (Returned("route_history_summary") /\ Len(call.path) < 2) =>
        /\ "error" \notin DOMAIN result
        /\ result.path_length_km = 0
        /\ result.selected_events = <<>>
        /\ result.summary = "Route is too short for evaluation."

\* a path of one point, the place of an event, with a corridor around it
C10_Witness ==
    /\ Returned("route_history_summary")
    /\ Len(call.path) = 1
    /\ call.corridor_km > 0
    /\ \E i \in 1..Len(EVENTS) :
          EVENTS[i].lat = call.path[1][1] /\ EVENTS[i].lon = call.path[1][2]
    /\ result.selected_events = <<>>

(***************************************************************************)
(* C11: every result of route_history_summary, for every path (those of    *)
(* fewer than 2 points included) and every corridor_km, carries the four   *)
(* fields path_length_km, corridor_km, selected_events and summary, and    *)
(* its corridor_km is the corridor_km argument.                            *)
(***************************************************************************)
C11_RouteResultFields ==
    Returned("route_history_summary") =>
        /\ {"path_length_km", "corridor_km", "selected_events", "summary"}
              \subseteq DOMAIN result
        /\ result.corridor_km = call.corridor_km

(***************************************************************************)
(* C12: for a path of at least 2 points, route_history_summary selects an  *)
(* event if and only if the least of its distances to the path's vertices  *)
(* (not to the segments between them) is <= corridor_km, reports that      *)
(* least distance, to 3 decimals, as distance_to_route_km, and lists the   *)
(* selected events in ascending year.                                      *)
(***************************************************************************)
VertexDistances(path, ev) ==
    {_distance_km(path[i][1], path[i][2], ev.lat, ev.lon) : i \in 1..Len(path)}

EventsAlongRoute(events, path, corridor_km) ==
    {i \in 1..Len(events) : MinOf(VertexDistances(path, events[i])) <= corridor_km}

Halfway(path) ==
    <<(path[1][1] + path[2][1]) \div 2, (path[1][2] + path[2][2]) \div 2>>

PlacesOf(q, s) ==
    {i \in 1..(Len(s) - Len(q) + 1) : SubSeq(s, i, i + Len(q) - 1) = q}

MaxOf(S) == CHOOSE x \in S : \A y \in S : x >= y

C13_RouteSummaryText ==
    (Returned("route_history_summary") /\ Len(call.path) >= 2) =>
        LET sel == result.selected_events
            regions == {sel[k].region : k \in 1..Len(sel)}
            years == {sel[k].year : k \in 1..Len(sel)}
            others == {EVENTS[i].region : i \in 1..Len(EVENTS)} \ regions
        IN  IF Len(sel) = 0
            THEN result.summary
                    = "No historical events fall within the specified corridor."
            ELSE /\ \A r \in regions : Cardinality(PlacesOf(r, result.summary)) = 1
                 /\ \A r \in others : PlacesOf(r, result.summary) = {}
                 /\ \A r1 \in regions : \A r2 \in regions :
                       StrLess(r1, r2) =>
                           MinOf(PlacesOf(r1, result.summary))
                              < MinOf(PlacesOf(r2, result.summary))
                 /\ PlacesOf("span from " \o ToString(MinOf(years)) \o " to "
                                \o ToString(MaxOf(years)) \o ",", result.summary) # {}

\* a route along which lie events of three regions or more, several of them in
\* one region, and not in the order of their regions' names
C13_Witness ==
    /\ Returned("route_history_summary")
    /\ Len(call.path) >= 2
    /\ LET sel == result.selected_events
       IN  /\ Cardinality({sel[k].region : k \in 1..Len(sel)}) >= 3
           /\ Len(sel) > Cardinality({sel[k].region : k \in 1..Len(sel)})
           /\ \E k \in 1..(Len(sel) - 1) : StrLess(sel[k + 1].region, sel[k].region)

(***************************************************************************)
(* C14: for every event E and every path all of whose vertices are E's     *)
(* coordinates, route_history_summary has E among selected_events with     *)
(* distance_to_route_km = 0.  As stated, for every such path, this fails   *)
(* for a path of one vertex, which is too short to be evaluated:           *)
(* C14_RouteThroughEvent states it as claimed, for every path with a       *)
(* vertex; C14_RouteThroughEventTwice for the paths of at least 2 points   *)
(* and corridor_km >= 0, on the path of the call and on the paths of the   *)
(* same length through every other event.                                  *)
(***************************************************************************)
\* every vertex of the path is the place of ev
AllAt(path, ev) == \A k \in 1..Len(path) : path[k] = <<ev.lat, ev.lon>>

\* ev is among the selected events of res, at distance 0 from the route
SelectedAtZero(res, ev) ==
    \E k \in 1..Len(res.selected_events) :
        /\ EventOf(res.selected_events[k]) = ev
        /\ res.selected_events[k].distance_to_route_km = 0

C14_RouteThroughEvent ==
    (Returned("route_history_summary") /\ Len(call.path) >= 1) =>
        \A i \in 1..Len(EVENTS) :
            AllAt(call.path, EVENTS[i]) => SelectedAtZero(result, EVENTS[i])

C14_RouteThroughEventTwice ==
    (Returned("route_history_summary") /\ Len(call.path) >= 2
        /\ call.corridor_km >= 0) =>
        \A i \in 1..Len(EVENTS) :
            /\ AllAt(call.path, EVENTS[i]) => SelectedAtZero(result, EVENTS[i])
            /\ (\A k \in 1..Len(call.path) : call.path[k] = call.path[1]) =>
                  SelectedAtZero(
                      route_history_summary(EVENTS,
                          [k \in 1..Len(call.path) |-> <<EVENTS[i].lat, EVENTS[i].lon>>],
                          call.corridor_km),
                      EVENTS[i])

\* a path of two vertices, both the place of an event, and a corridor of
\* width 0: the event is selected
C14_Witness ==
    /\ Returned("route_history_summary")
    /\ Len(call.path) = 2
    /\ call.corridor_km = 0
    /\ \E i \in 1..Len(EVENTS) :
          AllAt(call.path, EVENTS[i]) /\ SelectedAtZero(result, EVENTS[i])

(***************************************************************************)
(* C15: after any sequence of calls of the six operations PLACES, POIS and *)
(* EVENTS are equal, in content and in order, to their initial values, and *)
(* no stored record has a distance_km or distance_to_route_km field: the   *)
(* annotated entries of the results are copies of the stored records.      *)
(***************************************************************************)
C15_TablesUnchanged ==
    /\ PLACES = PlacesTable
    /\ POIS = PoisTable
    /\ EVENTS = EventsTable
    /\ \A i \in 1..Len(POIS) : "distance_km" \notin DOMAIN POIS[i]
    /\ \A i \in 1..Len(EVENTS) :
          DOMAIN EVENTS[i] \cap {"distance_km", "distance_to_route_km"} = {}

\* a call has returned entries that carry a distance, made from stored records
C15_Witness ==
    /\ \/ /\ Returned("nearby_search")
          /\ \E k \in 1..Len(result.results) :
                /\ "distance_km" \in DOMAIN result.results[k]
                /\ \E i \in 1..Len(POIS) : PoiOf(result.results[k]) = POIS[i]
       \/ /\ Returned("route_history_summary")
          /\ \E k \in 1..Len(result.selected_events) :
                /\ "distance_to_route_km" \in DOMAIN result.selected_events[k]
                /\ \E i \in 1..Len(EVENTS) :
                      EventOf(result.selected_events[k]) = EVENTS[i]
    /\ POIS = PoisTable
    /\ EVENTS = EventsTable

(***************************************************************************)
(* C16: each of the six operations is deterministic and independent of    *)
(* history: two calls with the same arguments return the same result,      *)
(* whatever other calls were made before, between or at the same time as   *)
(* the two.  Two requests that hold the results of equal calls hold equal  *)
(* results, and each held result is what the operation gives on the tables *)
(* as loaded.                                                              *)
(***************************************************************************)
\* the result of a call on the tables as loaded
OnLoadedTables(made) ==
    CASE made.op = "geocode" -> geocode(PlacesTable, made.query)
      [] made.op = "reverse_geocode" -> reverse_geocode(PlacesTable, made.lat, made.lon)
      [] made.op = "nearby_search" ->
            nearby_search(PoisTable, made.lat, made.lon, made.poi_type,
                          made.radius_km, made.limit)
      [] made.op = "events_near_location" ->
            events_near_location(EventsTable, made.lat, made.lon, made.radius_km,
                                 made.start_year, made.end_year)
      [] made.op = "region_timeline" ->
            region_timeline(EventsTable, made.region_name, made.start_year,
                            made.end_year, made.limit)
      [] made.op = "route_history_summary" ->
            route_history_summary(EventsTable, made.path, made.corridor_km)

C16_SameCallSameResult ==
    /\ \A c1 \in Callers : \A c2 \in Callers :
          (/\ sessions[c1].pc = "returned"
           /\ sessions[c2].pc = "returned"
           /\ sessions[c1].call = sessions[c2].call)
             => sessions[c1].result = sessions[c2].result
    /\ \A c \in Callers :
          sessions[c].pc = "returned" =>
              sessions[c].result = OnLoadedTables(sessions[c].call)

\* both requests hold the result of the same call, one that found events
C16_Witness ==
    /\ sessions["first"].pc = "returned"
    /\ sessions["second"].pc = "returned"
    /\ sessions["first"].call = sessions["second"].call
    /\ sessions["first"].call.op = "events_near_location"
    /\ Len(sessions["first"].result.events) > 0
    /\ sessions["first"].result = sessions["second"].result

(***************************************************************************)
(* C17: the list returned by nearby_search and by events_near_location     *)
(* (sort key: the distance_km of an entry) and by region_timeline and      *)
(* route_history_summary (sort key: the year) is in non-decreasing order   *)
(* of the sort key, and two entries of equal sort key are in the order     *)
(* they have in the table.                                                 *)
(***************************************************************************)
\* where in the table the record of an entry is stored
IndexIn(table, rec) == CHOOSE i \in 1..Len(table) : table[i] = rec

\* keys[k] is the sort key of lst[k], at[k] the place in the table of lst[k]
SortedStably(keys, at) ==
    \A k1 \in DOMAIN keys : \A k2 \in DOMAIN keys :
        k1 < k2 =>
            /\ keys[k1] <= keys[k2]
            /\ keys[k1] = keys[k2] => at[k1] < at[k2]

C17_SortedWithStableTies ==
    /\ Returned("nearby_search") =>
          LET lst == result.results
          IN  SortedStably([k \in 1..Len(lst) |-> lst[k].distance_km],
                           [k \in 1..Len(lst) |-> IndexIn(POIS, PoiOf(lst[k]))])
    /\ Returned("events_near_location") =>
          LET lst == result.events
          IN  SortedStably([k \in 1..Len(lst) |-> lst[k].distance_km],
                           [k \in 1..Len(lst) |-> IndexIn(EVENTS, EventOf(lst[k]))])
    /\ Returned("region_timeline") =>
          LET lst == result.timeline
          IN  SortedStably([k \in 1..Len(lst) |-> lst[k].year],
                           [k \in 1..Len(lst) |-> IndexIn(EVENTS, lst[k])])
    /\ Returned("route_history_summary") =>
          LET lst == result.selected_events
          IN  SortedStably([k \in 1..Len(lst) |-> lst[k].year],
                           [k \in 1..Len(lst) |-> IndexIn(EVENTS, EventOf(lst[k]))])

\* events at three distances or more, two of them at the same distance, and
\* not in the order of the table
C17_Witness ==
    /\ Returned("events_near_location")
    /\ LET lst == result.events
       IN  /\ Cardinality({lst[k].distance_km : k \in 1..Len(lst)}) >= 3
           /\ \E k \in 1..(Len(lst) - 1) :
                 /\ lst[k].distance_km = lst[k + 1].distance_km
                 /\ EventOf(lst[k]) # EventOf(lst[k + 1])
           /\ \E k \in 1..(Len(lst) - 1) :
                 IndexIn(EVENTS, EventOf(lst[k])) > IndexIn(EVENTS, EventOf(lst[k + 1]))

(***************************************************************************)
(* C18: for all coordinates a and b the distance of a to a is 0 and the    *)
(* distance of a to b is the distance of b to a, and the two helpers,      *)
(* _haversine_km and _distance_km, compute the same haversine value, with  *)
(* the Earth radius 6371 km.                                               *)
(***************************************************************************)
\* the coordinates the tables hold and the callers ask about
KnownPoints ==
    Coords \cup PlaceCoords
    \cup {<<PoisTable[i].lat, PoisTable[i].lon>> : i \in 1..Len(PoisTable)}
    \cup {<<EventsTable[i].lat, EventsTable[i].lon>> : i \in 1..Len(EventsTable)}

DistanceLaws(a, b) ==
    /\ _haversine_km(a[1], a[2], a[1], a[2]) = 0
    /\ _distance_km(a[1], a[2], a[1], a[2]) = 0
    /\ _haversine_km(a[1], a[2], b[1], b[2]) = _haversine_km(b[1], b[2], a[1], a[2])
    /\ _distance_km(a[1], a[2], b[1], b[2]) = _distance_km(b[1], b[2], a[1], a[2])
    /\ _haversine_km(a[1], a[2], b[1], b[2]) = _distance_km(a[1], a[2], b[1], b[2])
    /\ _haversine_km(a[1], a[2], b[1], b[2]) = Haversine(6371, a[1], a[2], b[1], b[2])

C18_DistanceSymmetricAndShared ==
    Returned("reverse_geocode") =>
        \A b \in KnownPoints : DistanceLaws(<<call.lat, call.lon>>, b)

\* the nearest place is some way off, in another latitude and longitude, and
\* the distance reported to it is the distance from it, by the other helper
C18_Witness ==
    /\ Returned("reverse_geocode")
    /\ "nearest_location" \in DOMAIN result
    /\ result.nearest_location.distance_km > 1000000
    /\ result.nearest_location.lat # call.lat
    /\ result.nearest_location.lon # call.lon
    /\ result.nearest_location.distance_km
          = Round3(_distance_km(result.nearest_location.lat,
                                result.nearest_location.lon, call.lat, call.lon))

(***************************************************************************)
(* C19: every entry returned by nearby_search or events_near_location      *)
(* reports a distance_km <= the radius_km echoed in the result, and every  *)
(* entry returned by route_history_summary a distance_to_route_km <= the   *)
(* returned corridor_km.  As stated this fails: the test is made on the    *)
(* distance and the report is the distance rounded to 3 decimals, which    *)
(* may round up past the threshold.  C19_ReportedWithinThreshold states it *)
(* as claimed, C19_ReportedWithinRoundedThreshold with the rounding.       *)
(***************************************************************************)
\* the reported distances of a result, and the threshold returned with them
ReportedDistances ==
    IF Returned("nearby_search")
    THEN {result.results[k].distance_km : k \in 1..Len(result.results)}
    ELSE IF Returned("events_near_location")
    THEN {result.events[k].distance_km : k \in 1..Len(result.events)}
    ELSE IF Returned("route_history_summary")
    THEN {result.selected_events[k].distance_to_route_km :
            k \in 1..Len(result.selected_events)}
    ELSE {}

EchoedThreshold ==
    IF Returned("route_history_summary")
    THEN (IF "corridor_km" \in DOMAIN result THEN result.corridor_km
          ELSE call.corridor_km)
    ELSE result.query.radius_km

C19_ReportedWithinThreshold ==
    \A d \in ReportedDistances : d <= EchoedThreshold

\* the third decimal of a kilometre, and half of it, in the unit of distances
Milli == 1000

HalfMilli == 500

\* a reported distance is a multiple of 0.001 km at most 0.0005 km above the
\* threshold, and not above a threshold that is itself a multiple of 0.001 km
C19_ReportedWithinRoundedThreshold ==
    \A d \in ReportedDistances :
        /\ d % Milli = 0
        /\ d <= EchoedThreshold + HalfMilli
        /\ EchoedThreshold % Milli = 0 => d <= EchoedThreshold

\* an entry at exactly the threshold, whose reported distance was rounded up
\* past it, in a radius search and along a route
C19_Witness ==
    /\ Returned("nearby_search") \/ Returned("route_history_summary")
    /\ \E d \in ReportedDistances : d > EchoedThreshold

====
